---- MODULE Spec2Model ----
(***************************************************************************)
(* Model of ipo_alert.py: main with its initial check and scheduler loop,  *)
(* the poll cycle check_for_new_ipos, the acquisition chain fetch_ipo_data *)
(* (cloudscraper, then Playwright), the SQLite store (ipo_entries), the    *)
(* Telegram notifier and the record parser IPOEntry.from_api_data.         *)
(***************************************************************************)
EXTENDS Naturals, Sequences, FiniteSets

VARIABLES
    db,                 \* table ipo_entries: a set of rows
    clock,              \* number of poll cycles started; CURRENT_TIMESTAMP of the cycle
    pc,                 \* position of the process: in main, in a cycle, in the scheduler loop, ended
    HAS_PLAYWRIGHT,     \* module flag set by the optional import
    TELEGRAM_BOT_TOKEN, \* TRUE when the environment variable is set
    TELEGRAM_CHAT_ID,   \* TRUE when the environment variable is set
    retry_count,        \* fetch_ipo_data's local counter
    known_ids,          \* check_for_new_ipos's local known_ids
    latest_entries,     \* check_for_new_ipos's local latest_entries
    new_entries,        \* check_for_new_ipos's local new_entries
    events,             \* attempts and backoff sleeps of the fetch_ipo_data call, in order
    last_attempt,       \* what the most recent acquisition attempt met
    fetch_result,       \* how the cycle's fetch_ipo_data call ended
    browser,            \* the browser of the most recent fetch_with_playwright call, once it returned
    alerts,             \* this cycle's send_telegram_alert invocations, in order
    alert_result,       \* what the most recent send_telegram_alert call did
    item,               \* a raw record handed to IPOEntry.from_api_data
    parsed              \* what that from_api_data call came to

vars == <<db, clock, pc, HAS_PLAYWRIGHT, TELEGRAM_BOT_TOKEN, TELEGRAM_CHAT_ID,
          retry_count, known_ids, latest_entries, new_entries, events,
          last_attempt, fetch_result, browser, alerts, alert_result,
          item, parsed>>

----------------------------------------------------------------------------
(* Bounds of the model *)

MaxId == 2

MaxBatch == 2

MaxCycles == 2

(* Program constant *)

\* faulty variant: one attempt too many
MAX_RETRIES_one_more == 3 + 1

\* faulty variant: one attempt short
MAX_RETRIES_off_by_one == 3 - 1

MAX_RETRIES == 3

----------------------------------------------------------------------------
(* Raw records of the upstream payload *)

Ids == 1..MaxId

CompanyNames == {"Alpha Co", "Alpha Company Ltd"}

\* the fields that identify a listing
RequiredKeys == {"id", "symbol", "company_name"}

\* the keys from_api_data reads on every call
AccessedKeys ==
    {"symbol", "opening_date", "closing_date", "status", "view", "id",
     "company_name", "units", "issue_manager", "price"}

\* an HTML fragment is a sequence of nodes: opening tags (with or without an
\* href attribute), closing tags, and the characters of the text, each a
\* one-character string or, past what a string here can hold, a code point
Open(name, has_href, href) ==
    [node |-> "open", name |-> name, has_href |-> has_href, href |-> href, ch |-> ""]

Close(name) ==
    [node |-> "close", name |-> name, has_href |-> FALSE, href |-> "", ch |-> ""]

Char(c) ==
    [node |-> "text", name |-> "", has_href |-> FALSE, href |-> "", ch |-> c]

Text(chars) == [k \in 1..Len(chars) |-> Char(chars[k])]

\* the characters that str.strip() removes: Python's whitespace. A character
\* that a string of this module cannot hold stands under its code point
Blanks ==
    {" ", "\t", "\n", "\f", "\r", "U+000B", "U+001C", "U+001D", "U+001E", "U+001F",
     "U+0085", "U+00A0", "U+1680", "U+2000", "U+2001", "U+2002", "U+2003",
     "U+2004", "U+2005", "U+2006", "U+2007", "U+2008", "U+2009", "U+200A",
     "U+2028", "U+2029", "U+202F", "U+205F", "U+3000"}

Html(chars) == <<Open("span", FALSE, "")>> \o Text(chars) \o <<Close("span")>>

Anchor(has_href, href) ==
    <<Open("a", has_href, href)>> \o Text(<<"v", "i", "e", "w">>) \o <<Close("a")>>

AnchorHtml == Anchor(TRUE, "https://x/101")

FullRecord(i, c) ==
    [id |-> i, symbol |-> Html(<<"A", "B", "C">>), company_name |-> c,
     opening_date |-> Html(<<"0", "1">>), closing_date |-> Html(<<"0", "5">>),
     status |-> Html(<<"O", "p", "e", "n">>), view |-> AnchorHtml, units |-> "1000",
     issue_manager |-> "Mgr", price |-> "100", url |-> "https://x/raw"]

Without(r, k) == [f \in (DOMAIN r) \ {k} |-> r[f]]

\* complete records, and one record per required key that is absent from it
RawRecords ==
    {FullRecord(i, c) : i \in Ids, c \in CompanyNames}
    \cup {Without(FullRecord(1, "Alpha Co"), k) : k \in RequiredKeys}

SeqsUpTo(S, n) == UNION {[1..k -> S] : k \in 0..n}

Batches == SeqsUpTo(RawRecords, MaxBatch)

----------------------------------------------------------------------------
(* IPOEntry.from_api_data *)

\* BeautifulSoup(...).get_text(): the characters of all text nodes, in order,
\* markup of any kind dropped
get_text(html) ==
    LET text == SelectSeq(html, LAMBDA n : n.node = "text")
    IN  [k \in 1..Len(text) |-> text[k].ch]

\* str.strip(): leading and trailing blanks removed
strip(chars) ==
    LET solid == {k \in 1..Len(chars) : chars[k] \notin Blanks}
    IN  IF solid = {} THEN <<>>
        ELSE SubSeq(chars,
                    CHOOSE k \in solid : \A j \in solid : k <= j,
                    CHOOSE k \in solid : \A j \in solid : k >= j)

\* soup_view.find("a") and its href: "" when the view is empty, has no anchor,
\* or its first anchor has no href or an empty one
extract_href(view) ==
    LET anchors == {k \in 1..Len(view) : view[k].node = "open" /\ view[k].name = "a"}
    IN  IF anchors = {} THEN ""
        ELSE LET first == view[CHOOSE k \in anchors : \A j \in anchors : k <= j]
             IN  IF first.has_href THEN first.href ELSE ""

\* data[k] raises KeyError when the key is absent; data["url"] is read only
\* when no href was found
RaisesKeyError(data) ==
    \/ ~(AccessedKeys \subseteq DOMAIN data)
    \/ (extract_href(data.view) = "" /\ "url" \notin DOMAIN data)

\* the entry's fields that the model follows; units, dates, issue_manager, price
\* and status are display fields copied the way company_name is
from_api_data(data) ==
    LET url == extract_href(data.view)
    IN  [id |-> data.id,
         symbol_clean |-> strip(get_text(data.symbol)),
         company_name |-> data.company_name,
         url |-> IF url # "" THEN url ELSE data.url]

\* [IPOEntry.from_api_data(item) for item in data["data"]]: one KeyError aborts the list
ComprehensionRaises(items) == \E k \in 1..Len(items) : RaisesKeyError(items[k])

ParseAll(items) == [k \in 1..Len(items) |-> from_api_data(items[k])]

Malformed(items) == {k \in 1..Len(items) : RaisesKeyError(items[k])}

----------------------------------------------------------------------------
(* State store *)

\* faulty variant: the query reads the wrong column
get_known_ipo_ids_wrong_column(store) == {row.first_seen : row \in store}

get_known_ipo_ids(store) == {row.id : row \in store}

\* faulty variant: INSERT OR REPLACE overwrites the stored row
InsertOrReplace(store, entry, now) ==
    {row \in store : row.id # entry.id}
    \cup {[id |-> entry.id, symbol_clean |-> entry.symbol_clean,
                 company_name |-> entry.company_name, url |-> entry.url,
                 first_seen |-> now]}

\* INSERT OR IGNORE: the PRIMARY KEY conflict drops the new row
InsertOrIgnore(store, entry, now) ==
    IF \E row \in store : row.id = entry.id
    THEN store
    ELSE store \cup {[id |-> entry.id, symbol_clean |-> entry.symbol_clean,
                      company_name |-> entry.company_name, url |-> entry.url,
                      first_seen |-> now]}

\* faulty variant: the loop returns after its first insert
save_first_entry_only(store, entries, now) ==
    IF entries = <<>> THEN store ELSE InsertOrIgnore(store, Head(entries), now)

RECURSIVE save_ipo_entries(_, _, _)
save_ipo_entries(store, entries, now) ==
    IF entries = <<>> THEN store
    ELSE save_ipo_entries(InsertOrIgnore(store, Head(entries), now), Tail(entries), now)

----------------------------------------------------------------------------
(* Change detection: [entry for entry in latest_entries if entry.id not in known_ids] *)

\* faulty variant: the kept entries come out in reverse order
RECURSIVE DetectReversed(_, _)
DetectReversed(entries, known) ==
    IF entries = <<>> THEN <<>>
    ELSE IF Head(entries).id \notin known
         THEN DetectReversed(Tail(entries), known) \o <<Head(entries)>>
         ELSE DetectReversed(Tail(entries), known)

RECURSIVE DetectNew(_, _)
DetectNew(entries, known) ==
    IF entries = <<>> THEN <<>>
    ELSE IF Head(entries).id \notin known
         THEN <<Head(entries)>> \o DetectNew(Tail(entries), known)
         ELSE DetectNew(Tail(entries), known)

----------------------------------------------------------------------------
(* Initial state: module import; main is about to run on an empty store *)

NoAttempt == [bad |-> FALSE, good |-> 0]

NoEntry == [id |-> 0, symbol_clean |-> <<>>, company_name |-> "", url |-> ""]

NoParse == [raised |-> FALSE, entry |-> NoEntry]

Init ==
    /\ db = {}
    /\ clock = 0
    /\ pc = "main"
    /\ HAS_PLAYWRIGHT \in BOOLEAN
    /\ TELEGRAM_BOT_TOKEN \in BOOLEAN
    /\ TELEGRAM_CHAT_ID \in BOOLEAN
    /\ retry_count = 0
    /\ known_ids = {}
    /\ latest_entries = <<>>
    /\ new_entries = <<>>
    /\ events = <<>>
    /\ last_attempt = NoAttempt
    /\ fetch_result = "none"
    /\ browser = "none"
    /\ alerts = <<>>
    /\ alert_result = "none"
    /\ item = FullRecord(1, "Alpha Co")
    /\ parsed = NoParse

Config == <<HAS_PLAYWRIGHT, TELEGRAM_BOT_TOKEN, TELEGRAM_CHAT_ID>>

----------------------------------------------------------------------------
(* main's initial check: setup_database keeps an existing table, then       *)
(* check_for_new_ipos starts with known_ids = get_known_ipo_ids()           *)

FirstTier == "cloudscraper"

StartCycle ==
    /\ pc = "main"
    /\ clock < MaxCycles
    /\ clock' = clock + 1
    /\ known_ids' = get_known_ipo_ids(db)
    /\ retry_count' = 0
    /\ latest_entries' = <<>>
    /\ new_entries' = <<>>
    /\ events' = <<>>
    /\ last_attempt' = NoAttempt
    /\ fetch_result' = "none"
    /\ browser' = "none"
    /\ alerts' = <<>>
    /\ alert_result' = "none"
    /\ pc' = FirstTier
    /\ UNCHANGED <<db, Config>>
    /\ UNCHANGED <<item, parsed>>

----------------------------------------------------------------------------
(* fetch_ipo_data: what one request can meet *)

CsKinds == {"exception", "status_fail", "bad_json", "no_data_key", "json_scalar"}

PwKinds == {"launch_error", "exception", "not_json", "bad_json", "no_data_key", "json_scalar"}

DataResponses == {[kind |-> "data", data |-> b] : b \in Batches}

CsResponses == {[kind |-> k, data |-> <<>>] : k \in CsKinds} \cup DataResponses

PwResponses == {[kind |-> k, data |-> <<>>] : k \in PwKinds} \cup DataResponses

Unavailable == [kind |-> "unavailable", data |-> <<>>]

None == [kind |-> "None", data |-> <<>>]

\* whether the response's record list holds a record that lacks a required key,
\* and how many of its records are complete
Describe(r) ==
    LET nbad == Cardinality(Malformed(r.data))
    IN  [bad |-> nbad > 0, good |-> Len(r.data) - nbad]

\* what the code makes of a response: the comprehension over data["data"] either
\* raises or yields the entries
Received(r) ==
    [kind |-> r.kind,
     raises |-> ComprehensionRaises(r.data),
     entries |-> IF ComprehensionRaises(r.data) THEN <<>> ELSE ParseAll(r.data),
     seen |-> Describe(r)]

CsReceived == {Received(r) : r \in CsResponses}

PwReceived == {Received(r) : r \in PwResponses \cup {Unavailable}}

Attempt(tier, res) == [tier |-> tier, res |-> res, delay |-> 0]

Sleep(tier, d) == [tier |-> tier, res |-> "sleep", delay |-> d]

\* faulty variant: the delay is computed before retry_count is incremented
FailureEventsEarlyExponent(tier) ==
    IF retry_count + 1 < MAX_RETRIES
    THEN <<Attempt(tier, "fail"), Sleep(tier, 2 ^ retry_count)>>
    ELSE <<Attempt(tier, "fail")>>

\* retry_count += 1, then asyncio.sleep(2 ** retry_count) while attempts remain
FailureEvents(tier) ==
    IF retry_count + 1 < MAX_RETRIES
    THEN <<Attempt(tier, "fail"), Sleep(tier, 2 ^ (retry_count + 1))>>
    ELSE <<Attempt(tier, "fail")>>

\* the cloudscraper loop: any failure, the comprehension's KeyError included,
\* is caught by "except Exception" and counted
CloudscraperAttempt ==
    /\ pc = "cloudscraper"
    /\ retry_count < MAX_RETRIES
    /\ \E r \in CsReceived :
        /\ last_attempt' = r.seen
        /\ IF r.kind = "data" /\ ~r.raises
           THEN /\ latest_entries' = r.entries
                /\ events' = Append(events, Attempt("cloudscraper", "ok"))
                /\ pc' = "fetched"
                /\ fetch_result' = "entries"
                /\ UNCHANGED retry_count
           ELSE /\ events' = events \o FailureEvents("cloudscraper")
                /\ IF retry_count + 1 < MAX_RETRIES
                   THEN retry_count' = retry_count + 1 /\ pc' = pc
                   ELSE retry_count' = 0 /\ pc' = "playwright"
                /\ UNCHANGED <<latest_entries, fetch_result>>
    /\ UNCHANGED browser
    /\ UNCHANGED <<db, clock, Config, known_ids, new_entries, alerts, alert_result>>
    /\ UNCHANGED <<item, parsed>>

\* faulty variant: the function does not leave an "async with" block
ExitPlaywrightLeaks(b) == b

\* leaving "async with async_playwright()": stop() ends the driver and with it
\* a browser that is still open
ExitPlaywright(b) == IF b = "live" THEN "released" ELSE b

\* the browser when fetch_with_playwright returns: "launch_error" is raised
\* before a browser exists, "exception" by a step after the launch; every other
\* path reaches one of the two browser.close() calls
BrowserAfter(kind) ==
    IF kind = "unavailable" THEN "none"
    ELSE ExitPlaywright(IF kind = "launch_error" THEN "none"
                        ELSE IF kind = "exception" THEN "live"
                        ELSE "closed")

\* fetch_with_playwright: None unless the page body parsed as JSON
fetch_with_playwright(r) ==
    IF ~HAS_PLAYWRIGHT THEN Received(None)
    ELSE IF r.kind \in {"launch_error", "exception", "not_json", "bad_json"} THEN Received(None)
    ELSE r

\* the Playwright loop: nothing is caught here
PlaywrightAttempt ==
    /\ pc = "playwright"
    /\ retry_count < MAX_RETRIES
    /\ \E r \in {x \in PwReceived : (x.kind = "unavailable") = ~HAS_PLAYWRIGHT} :
        LET data == fetch_with_playwright(r) IN
        /\ last_attempt' = r.seen
        /\ browser' = BrowserAfter(r.kind)
        /\ IF data.kind = "json_scalar" \/ (data.kind = "data" /\ data.raises)
           THEN \* TypeError of '"data" in data', KeyError of from_api_data
                /\ events' = Append(events, Attempt("playwright", "raise"))
                /\ pc' = "raised"
                /\ fetch_result' = "raised"
                /\ UNCHANGED <<retry_count, latest_entries>>
           ELSE IF data.kind = "data"
           THEN /\ latest_entries' = data.entries
                /\ events' = Append(events, Attempt("playwright", "ok"))
                /\ pc' = "fetched"
                /\ fetch_result' = "entries"
                /\ UNCHANGED retry_count
           ELSE /\ events' = events \o FailureEvents("playwright")
                /\ retry_count' = retry_count + 1
                /\ IF retry_count + 1 < MAX_RETRIES
                   THEN pc' = pc /\ UNCHANGED <<latest_entries, fetch_result>>
                   ELSE \* return []
                        pc' = "fetched" /\ latest_entries' = <<>> /\ fetch_result' = "empty"
    /\ UNCHANGED <<db, clock, Config, known_ids, new_entries, alerts, alert_result>>
    /\ UNCHANGED <<item, parsed>>

----------------------------------------------------------------------------
(* check_for_new_ipos after the fetch *)

DetectNewEntries ==
    /\ pc = "fetched"
    /\ new_entries' = DetectNew(latest_entries, known_ids)
    /\ pc' = IF new_entries' # <<>> THEN "detected" ELSE "idle"
    /\ retry_count' = 0 /\ events' = <<>>    \* fetch_ipo_data has returned
    /\ UNCHANGED browser
    /\ UNCHANGED <<db, clock, Config, known_ids, latest_entries,
                   last_attempt, fetch_result, alerts, alert_result>>
    /\ UNCHANGED <<item, parsed>>

SaveNewEntries ==
    /\ pc = "detected"
    /\ db' = save_ipo_entries(db, new_entries, clock)
    /\ pc' = "notify"
    /\ UNCHANGED browser
    /\ UNCHANGED <<clock, Config, retry_count, known_ids, latest_entries,
                   new_entries, events, last_attempt, fetch_result, alerts, alert_result>>
    /\ UNCHANGED <<item, parsed>>

----------------------------------------------------------------------------
(* send_telegram_alert *)

DeliveryOutcomes == {"2xx", "request_error", "http_status_error"}

\* faulty variant: the configuration check is missing
send_telegram_alert_unchecked(outcome) ==
    IF outcome = "2xx" THEN "True"
    ELSE IF outcome = "request_error" THEN "False"
    ELSE "raise"

\* only httpx.RequestError is caught; raise_for_status raises httpx.HTTPStatusError
send_telegram_alert(outcome) ==
    IF ~TELEGRAM_BOT_TOKEN \/ ~TELEGRAM_CHAT_ID THEN "False"
    ELSE IF outcome = "2xx" THEN "True"
    ELSE IF outcome = "request_error" THEN "False"
    ELSE "raise"

SendAlert ==
    /\ pc = "notify"
    /\ LET entry == new_entries[Len(alerts) + 1]
           configured == TELEGRAM_BOT_TOKEN /\ TELEGRAM_CHAT_ID
       IN  \E outcome \in (IF configured THEN DeliveryOutcomes ELSE {"not_posted"}) :
            LET res == send_telegram_alert(outcome) IN
            /\ alerts' = Append(alerts, [id |-> entry.id, posted |-> configured])
            /\ alert_result' = res
            /\ pc' = IF res = "raise" THEN "raised"
                     ELSE IF Len(alerts) + 1 < Len(new_entries) THEN "notify"
                     ELSE "idle"
    /\ UNCHANGED browser
    /\ UNCHANGED <<db, clock, Config, retry_count, known_ids, latest_entries,
                   new_entries, events, last_attempt, fetch_result>>
    /\ UNCHANGED <<item, parsed>>

----------------------------------------------------------------------------
(* main after the initial check: the scheduler loop *)

\* asyncio.run(check_for_new_ipos()) called while main's event loop is running:
\* asyncio.run raises RuntimeError before the coroutine starts
run_check_wrapper == "RuntimeError"

\* schedule.run_pending(), then asyncio.sleep(60): a job that is due is run in
\* the loop's own thread and nothing catches what it raises
RunPending ==
    /\ pc = "idle"
    /\ \E due \in BOOLEAN :
        pc' = IF ~due THEN "idle"
              ELSE IF run_check_wrapper = "RuntimeError" THEN "crashed"
              ELSE FirstTier
    /\ UNCHANGED <<db, clock, Config, retry_count, known_ids, latest_entries,
                   new_entries, events, last_attempt, fetch_result, browser,
                   alerts, alert_result>>
    /\ UNCHANGED <<item, parsed>>

----------------------------------------------------------------------------
(* An exception left main and ended the process; the program is started     *)
(* again on the same database file: the module runs again, so the import of *)
(* playwright is retried and the environment is read again                  *)

Restart ==
    /\ pc \in {"raised", "crashed"}
    /\ pc' = "main"
    /\ retry_count' = 0
    /\ known_ids' = {}
    /\ latest_entries' = <<>>
    /\ new_entries' = <<>>
    /\ events' = <<>>
    /\ last_attempt' = NoAttempt
    /\ fetch_result' = "none"
    /\ browser' = "none"
    /\ alerts' = <<>>
    /\ alert_result' = "none"
    /\ HAS_PLAYWRIGHT' \in BOOLEAN
    /\ TELEGRAM_BOT_TOKEN' \in BOOLEAN
    /\ TELEGRAM_CHAT_ID' \in BOOLEAN
    /\ UNCHANGED <<db, clock>>
    /\ UNCHANGED <<item, parsed>>

Next ==
    \/ StartCycle
    \/ CloudscraperAttempt
    \/ PlaywrightAttempt
    \/ DetectNewEntries
    \/ SaveNewEntries
    \/ SendAlert
    \/ RunPending
    \/ Restart

Spec == Init /\ [][Next]_vars

----------------------------------------------------------------------------
(* The store on its own: save_ipo_entries applied to any entry list *)

Entries == {from_api_data(FullRecord(i, c)) : i \in Ids, c \in CompanyNames}

InitStore ==
    /\ db = {}
    /\ clock = 0
    /\ pc = "store"
    /\ HAS_PLAYWRIGHT = TRUE
    /\ TELEGRAM_BOT_TOKEN = TRUE
    /\ TELEGRAM_CHAT_ID = TRUE
    /\ retry_count = 0
    /\ known_ids = {}
    /\ latest_entries = <<>>
    /\ new_entries = <<>>
    /\ events = <<>>
    /\ last_attempt = NoAttempt
    /\ fetch_result = "none"
    /\ browser = "none"
    /\ alerts = <<>>
    /\ alert_result = "none"
    /\ item = FullRecord(1, "Alpha Co")
    /\ parsed = NoParse

SaveEntries ==
    /\ pc = "store"
    /\ clock < MaxCycles
    /\ \E es \in SeqsUpTo(Entries, MaxBatch) :
        /\ new_entries' = es
        /\ clock' = clock + 1
        /\ db' = save_ipo_entries(db, es, clock + 1)
    /\ UNCHANGED browser
    /\ UNCHANGED <<pc, Config, retry_count, known_ids, latest_entries, events,
                   last_attempt, fetch_result, alerts, alert_result>>
    /\ UNCHANGED <<item, parsed>>

SpecStore == InitStore /\ [][SaveEntries]_vars

----------------------------------------------------------------------------
(* IPOEntry.from_api_data on its own, applied to one raw record *)

\* the "symbol" field: one span, text padded with blanks, two spans, text
\* wrapped in an anchor
SymbolFields ==
    {Html(<<"A", "B", "C">>),
     Html(<<" ", "U+00A0", "A", "B", "C", "\r", "\n">>),
     Html(<<"A">>) \o Html(<<"B", "C">>),
     <<Open("a", TRUE, "https://x/9")>> \o Text(<<"A", "B", "C">>) \o <<Close("a")>>}

\* the "view" field: empty, markup without an anchor, an anchor without href,
\* an anchor with an empty href, an anchor with href
ViewFields ==
    {<<>>, Html(<<"v", "i", "e", "w">>), Anchor(FALSE, ""), Anchor(TRUE, ""), AnchorHtml}

UrlFields == {"", "https://x/raw"}

\* complete records over the symbol, view and url fields, and the same records
\* with the "view" key, the "url" key or both absent
ParseItems ==
    LET full == {[FullRecord(i, c) EXCEPT !.symbol = sy, !.view = v, !.url = u] :
                    i \in Ids, c \in CompanyNames, sy \in SymbolFields,
                    v \in ViewFields, u \in UrlFields}
    IN  full \cup {Without(r, "url") : r \in full}
             \cup {Without(r, "view") : r \in full}
             \cup {Without(Without(r, "view"), "url") : r \in full}

InitParse ==
    /\ db = {}
    /\ clock = 0
    /\ pc = "parse"
    /\ HAS_PLAYWRIGHT = TRUE
    /\ TELEGRAM_BOT_TOKEN = TRUE
    /\ TELEGRAM_CHAT_ID = TRUE
    /\ retry_count = 0
    /\ known_ids = {}
    /\ latest_entries = <<>>
    /\ new_entries = <<>>
    /\ events = <<>>
    /\ last_attempt = NoAttempt
    /\ fetch_result = "none"
    /\ browser = "none"
    /\ alerts = <<>>
    /\ alert_result = "none"
    /\ item \in ParseItems
    /\ parsed = NoParse

ParseItem ==
    /\ pc = "parse"
    /\ pc' = "parsed"
    /\ parsed' = IF RaisesKeyError(item)
                 THEN [raised |-> TRUE, entry |-> NoEntry]
                 ELSE [raised |-> FALSE, entry |-> from_api_data(item)]
    /\ UNCHANGED <<db, clock, Config, retry_count, known_ids, latest_entries,
                   new_entries, events, last_attempt, fetch_result, browser,
                   alerts, alert_result, item>>

SpecParse == InitParse /\ [][ParseItem]_vars

----------------------------------------------------------------------------
(* Views of the cycle's logs *)

AttemptIdx(tier) ==
    {k \in 1..Len(events) : events[k].tier = tier /\ events[k].res # "sleep"}

FailedIdx(tier) == {k \in AttemptIdx(tier) : events[k].res = "fail"}

Attempts == SelectSeq(events, LAMBDA e : e.res # "sleep")

AlertedIds == [k \in 1..Len(alerts) |-> alerts[k].id]

NewIds == [k \in 1..Len(new_entries) |-> new_entries[k].id]

SleepIdx == {k \in 1..Len(events) : events[k].res = "sleep"}

\* the number of failed attempts of the tier among the first k events
FailedUpTo(tier, k) == Cardinality({j \in FailedIdx(tier) : j <= k})

\* the row that inserting the cycle's new entries makes of the k-th of them
InsertedRow(k) ==
    LET same == {j \in 1..Len(new_entries) : new_entries[j].id = new_entries[k].id}
        first == new_entries[CHOOSE j \in same : \A i \in same : j <= i]
    IN  [id |-> first.id, symbol_clean |-> first.symbol_clean,
         company_name |-> first.company_name, url |-> first.url,
         first_seen |-> clock]

----------------------------------------------------------------------------
(* C1: an id that an earlier cycle inserted into the store is never reported *)
(* as new, nor notified, by a later cycle, whatever its other fields are     *)
(* in the later fetch: every id among the cycle's new entries or alerts is   *)
(* either not stored yet or was stored by this very cycle.                   *)
C1_KnownIdNeverNewAgain ==
    \A row \in db :
        /\ (\E k \in 1..Len(new_entries) : new_entries[k].id = row.id)
              => row.first_seen = clock
        /\ (\E k \in 1..Len(alerts) : alerts[k].id = row.id)
              => row.first_seen = clock

\* a later cycle fetched a stored id under another company name and finished
\* detection without reporting it
C1_Witness ==
    /\ clock >= 2
    /\ pc \in {"detected", "idle"}
    /\ \E k \in 1..Len(latest_entries) : \E row \in db :
          /\ row.id = latest_entries[k].id
          /\ row.first_seen < clock
          /\ row.company_name # latest_entries[k].company_name
          /\ \A j \in 1..Len(new_entries) : new_entries[j].id # row.id

(* C2: a failed cloudscraper attempt is retried until exactly 3 attempts     *)
(* were made; Playwright runs only after 3 failed cloudscraper attempts; a   *)
(* successful attempt is the last attempt of the cycle.                      *)
C2_CloudscraperRetriedThenPlaywright ==
    /\ Cardinality(AttemptIdx("cloudscraper")) <= 3
    /\ \A k \in 1..Len(events) :
          events[k].tier = "playwright"
             => Cardinality({j \in FailedIdx("cloudscraper") : j < k}) = 3
    /\ \A k \in 1..Len(events) : events[k].res = "ok" => k = Len(events)
    /\ (pc = "cloudscraper" /\ events # <<>>)
          => /\ Cardinality(AttemptIdx("cloudscraper")) < 3
             /\ AttemptIdx("cloudscraper") = FailedIdx("cloudscraper")
    /\ (pc # "cloudscraper" /\ events # <<>> /\ events[1].tier = "cloudscraper"
           /\ \A k \in AttemptIdx("cloudscraper") : events[k].res = "fail")
          => Cardinality(AttemptIdx("cloudscraper")) = 3

\* Playwright succeeded after the three cloudscraper failures
C2_Witness ==
    /\ Cardinality(FailedIdx("cloudscraper")) = 3
    /\ events[Len(events)] = Attempt("playwright", "ok")
    /\ pc = "fetched"

(* C3 as stated: acquisition starts with exactly one attempt of a direct     *)
(* HTTP client, and cloudscraper is attempted only after it failed: whenever *)
(* cloudscraper has been attempted, the first event of the call is a failed  *)
(* direct attempt and it is the only direct attempt.                         *)
C3_DirectClientFirst ==
    \A k \in AttemptIdx("cloudscraper") :
        /\ events[1] = Attempt("direct", "fail")
        /\ AttemptIdx("direct") = {1}

(* C4 as stated: without Playwright, fetch_ipo_data returns the empty list  *)
(* as soon as cloudscraper's third attempt failed: the Playwright tier is    *)
(* not iterated again and again (at most the one call that finds it          *)
(* missing) and no backoff sleep follows cloudscraper's last attempt.        *)
C4_UnavailableTierShortCircuits ==
    ~HAS_PLAYWRIGHT =>
        /\ Cardinality(AttemptIdx("playwright")) <= 1
        /\ \A k \in 1..Len(events) :
              ~(events[k].tier = "playwright" /\ events[k].res = "sleep")

(* C5 as stated: whatever the fetch outcomes, the record contents and the    *)
(* delivery outcomes, no exception leaves check_for_new_ipos.                *)
C5_NoExceptionLeavesCycle == pc # "raised"

(* C6 as stated: an attempt whose batch holds a record without a required    *)
(* field still succeeds and returns every other record of the batch.         *)
C6_MalformedRecordSkipped ==
    last_attempt.bad =>
        /\ Attempts[Len(Attempts)].res = "ok"
        /\ Len(latest_entries) = last_attempt.good

(* C7 as stated: once the cycle is over, send_telegram_alert has been        *)
(* invoked exactly once per detected new entry, in detected order, whatever  *)
(* the outcome of each delivery.                                             *)
C7_EveryNewEntryAlertedInOrder ==
    pc \in {"idle", "raised"} => AlertedIds = NewIds

(* C8: the detection step yields exactly the fetched entries whose id is not *)
(* in the known-id set read from the store, in fetched order, and changes    *)
(* neither the fetched list nor the store.                                   *)
C8_DetectionIsOrderedFilter ==
    [][pc = "fetched" =>
          /\ known_ids = {row.id : row \in db}
          /\ new_entries' = SelectSeq(latest_entries, LAMBDA e : e.id \notin known_ids)
          /\ latest_entries' = latest_entries
          /\ db' = db]_vars

\* known {1}, fetched [1, 2]: detection kept the second entry only
C8_Witness ==
    /\ pc = "detected"
    /\ Len(latest_entries) = 2
    /\ latest_entries[1].id \in known_ids
    /\ new_entries = <<latest_entries[2]>>

(* C9: save_ipo_entries is idempotent. Whatever the store and the entry     *)
(* list, a save keeps every stored row as it is (an entry whose id is stored *)
(* is ignored), leaves one row per id, and saving the same list again later  *)
(* changes nothing more.                                                     *)
C9_SaveIsIdempotent ==
    [][pc = "store" =>
          /\ db \subseteq db'
          /\ \A k \in 1..Len(new_entries') : \E row \in db' : row.id = new_entries'[k].id
          /\ \A r1, r2 \in db' : r1.id = r2.id => r1 = r2
          /\ save_ipo_entries(db', new_entries', clock' + 1) = db']_vars

\* the list just saved held an id stored by an earlier save under another company
\* name, and twice an id that was not stored: one row each, the first one kept
C9_Witness ==
    /\ pc = "store"
    /\ Len(new_entries) = 2
    /\ \E row \in db : /\ row.id = new_entries[1].id
                       /\ row.first_seen < clock
                       /\ row.company_name # new_entries[1].company_name
    /\ \E row \in db : /\ row.id = new_entries[2].id
                       /\ row.first_seen = clock

(* C10 as stated: when no attempt of any tier succeeds, fetch_ipo_data       *)
(* returns the empty list without raising, the store is left as it was and   *)
(* no notification is sent.                                                  *)
C10_AllTiersFailedMeansEmptyCycle ==
    fetch_result \in {"empty", "raised"} =>
        /\ fetch_result = "empty"
        /\ latest_entries = <<>>
        /\ new_entries = <<>>
        /\ alerts = <<>>
        /\ known_ids = {row.id : row \in db}
        /\ \A row \in db : row.first_seen < clock

----------------------------------------------------------------------------
(* C11: within the cloudscraper tier and within the Playwright tier, the    *)
(* first failed attempt is followed by a sleep of exactly 2 seconds and the *)
(* second by a sleep of exactly 4 seconds; every sleep stands between two   *)
(* attempts of one tier (the later one made or still to be made); no sleep  *)
(* follows the third failed attempt of a tier.                              *)

C11_BackoffDoublesBetweenAttempts ==
    /\ \A k \in SleepIdx :
        LET tier == events[k].tier IN
        /\ k > 1
        /\ events[k - 1] = Attempt(tier, "fail")
        /\ FailedUpTo(tier, k) \in {1, 2}
        /\ FailedUpTo(tier, k) = 1 => events[k].delay = 2
        /\ FailedUpTo(tier, k) = 2 => events[k].delay = 4
        /\ IF k < Len(events)
           THEN events[k + 1].tier = tier /\ events[k + 1].res # "sleep"
           ELSE pc = tier
    /\ \A tier \in {"cloudscraper", "playwright"} : \A k \in FailedIdx(tier) :
        (k + 1 \in SleepIdx) = (FailedUpTo(tier, k) < 3)

\* the Playwright tier has slept 2 s and then 4 s and its third attempt failed
C11_Witness ==
    /\ \E k \in SleepIdx : events[k] = Sleep("playwright", 4) /\ k + 1 \in FailedIdx("playwright")
    /\ \E k \in SleepIdx : events[k] = Sleep("cloudscraper", 2)
    /\ Cardinality(FailedIdx("playwright")) = 3

----------------------------------------------------------------------------
(* C12: once a fetch_with_playwright call has returned, no browser that it  *)
(* launched is still open, whichever way the call ended: parsed JSON,       *)
(* content that is not JSON, a JSON parse failure, or an exception raised   *)
(* by a step after the launch.                                              *)

C12_BrowserReleasedOnReturn == browser # "live"

\* a Playwright attempt launched a browser, a later step raised, and the call
\* returned None with the browser gone
C12_Witness ==
    /\ browser = "released"
    /\ events # <<>>
    /\ events[Len(events)].tier = "playwright"
    /\ HAS_PLAYWRIGHT

----------------------------------------------------------------------------
(* C13: from the first notification attempt of a cycle on, every new entry  *)
(* the cycle detected is a row of the store, inserted by this cycle with    *)
(* the fields of the entry's first occurrence, and it stays that row        *)
(* through every later delivery, failed ones included.                      *)

C13_SavedBeforeFirstAlert ==
    (pc = "notify" \/ alerts # <<>>) =>
        \A k \in 1..Len(new_entries) : InsertedRow(k) \in db

\* the first of two new entries met a failed delivery; both are stored
C13_Witness ==
    /\ Len(new_entries) = 2
    /\ new_entries[1].id # new_entries[2].id
    /\ Len(alerts) = 1
    /\ alerts[1].posted
    /\ alert_result \in {"False", "raise"}
    /\ InsertedRow(1) \in db /\ InsertedRow(2) \in db

----------------------------------------------------------------------------
(* C14 as stated: once the initial check is over and the process is in its  *)
(* scheduler loop, it stays there until a check is due, and a check that is *)
(* due starts a poll cycle: the loop is never left any other way.           *)

C14_DueCheckRunsCycle == [][pc = "idle" => pc' \in {"idle", "cloudscraper"}]_vars

----------------------------------------------------------------------------
(* C15: no step removes or changes a row of the store, the store never      *)
(* holds two rows with one id, and a row that a step adds carries the       *)
(* fields of the first new entry with its id and the time of the cycle      *)
(* that adds it; so a stored row keeps the values of its first insertion    *)
(* whatever later fetches carry.                                            *)

C15_StoreIsAppendOnly ==
    [][/\ db \subseteq db'
       /\ \A r1, r2 \in db' : r1.id = r2.id => r1 = r2
       /\ \A row \in db' \ db : \E k \in 1..Len(new_entries) : row = InsertedRow(k)]_vars

\* a later cycle fetched a stored id with another company name and has
\* completed; the row is the one the earlier cycle inserted
C15_Witness ==
    /\ pc = "idle"
    /\ fetch_result = "entries"
    /\ \E row \in db : \E k \in 1..Len(latest_entries) :
        /\ latest_entries[k].id = row.id
        /\ latest_entries[k].company_name # row.company_name
        /\ row.first_seen < clock

----------------------------------------------------------------------------
(* C16: when the bot token or the chat id is not set, no send_telegram_alert *)
(* call posts anything, each call returns False and none raises; the cycle  *)
(* goes on through all of its new entries, and these stay in the store.     *)

C16_UnconfiguredAlertReturnsFalse ==
    (~TELEGRAM_BOT_TOKEN \/ ~TELEGRAM_CHAT_ID) =>
        /\ \A k \in 1..Len(alerts) : ~alerts[k].posted
        /\ alert_result = (IF alerts = <<>> THEN "none" ELSE "False")
        /\ pc = "raised" => fetch_result = "raised"
        /\ (pc = "idle" /\ new_entries # <<>>) => AlertedIds = NewIds
        /\ alerts # <<>> => \A k \in 1..Len(new_entries) : InsertedRow(k) \in db

\* without a chat id, a cycle with two new entries called send_telegram_alert
\* for both and completed
C16_Witness ==
    /\ TELEGRAM_BOT_TOKEN /\ ~TELEGRAM_CHAT_ID
    /\ pc = "idle"
    /\ Len(alerts) = 2
    /\ alerts[1].id # alerts[2].id
    /\ alert_result = "False"
    /\ {alerts[1].id, alerts[2].id} \subseteq get_known_ipo_ids(db)

----------------------------------------------------------------------------
(* C17 as stated: a record that has every field other than "view" and      *)
(* "url" parses without an exception, and the entry's url is the href of    *)
(* the first anchor of "view" when there is one with an href, else the      *)
(* record's "url" field when the record has one, else empty.                *)

C17_UrlFromAnchorElseFieldElseEmpty ==
    (pc = "parsed" /\ (AccessedKeys \ {"view"}) \subseteq DOMAIN item) =>
        LET href == IF "view" \in DOMAIN item THEN extract_href(item.view) ELSE ""
        IN  /\ ~parsed.raised
            /\ parsed.entry.url = (IF href # "" THEN href
                                   ELSE IF "url" \in DOMAIN item THEN item.url
                                   ELSE "")

----------------------------------------------------------------------------
(* C18 as stated: no id is notified twice: the alerts of one cycle carry    *)
(* pairwise different ids, and an id that is alerted was stored by this     *)
(* cycle, not by an earlier one (a cycle alerts only ids it has just        *)
(* stored, so an id alerted by an earlier cycle is a row with an earlier    *)
(* first-seen time).                                                        *)

C18_AtMostOneAlertPerId ==
    /\ \A j, k \in 1..Len(alerts) : alerts[j].id = alerts[k].id => j = k
    /\ \A k \in 1..Len(alerts) : \A row \in db :
        row.id = alerts[k].id => row.first_seen = clock

----------------------------------------------------------------------------
(* C19: a fetch_ipo_data call makes at most 3 cloudscraper attempts and at  *)
(* most 3 Playwright attempts, sleeps at most 4 times, and has returned or  *)
(* raised by the time its sixth attempt is over: while it is still running  *)
(* fewer than 6 attempts have been made.                                    *)

C19_FetchEndsWithinSixAttempts ==
    /\ Cardinality(AttemptIdx("cloudscraper")) <= 3
    /\ Cardinality(AttemptIdx("playwright")) <= 3
    /\ Cardinality(SleepIdx) <= 4
    /\ Len(Attempts) <= 6
    /\ pc \in {"cloudscraper", "playwright"} => Len(Attempts) < 6
    /\ pc = "cloudscraper" => Cardinality(AttemptIdx("cloudscraper")) < 3
    /\ pc = "playwright" => Cardinality(AttemptIdx("playwright")) < 3

\* the call returned [] after 6 failed attempts and 4 sleeps
C19_Witness ==
    /\ pc = "fetched"
    /\ fetch_result = "empty"
    /\ Len(Attempts) = 6
    /\ Cardinality(SleepIdx) = 4

----------------------------------------------------------------------------
(* C20: when a cycle whose fetch returned entries has completed, the id of  *)
(* every fetched entry is the id of a stored row, and every row the cycle   *)
(* inserted has an alert of this cycle for its id.                          *)

C20_CompletedCycleStoredAndAlerted ==
    (pc = "idle" /\ fetch_result = "entries") =>
        /\ \A k \in 1..Len(latest_entries) :
            \E row \in db : row.id = latest_entries[k].id
        /\ \A row \in db : row.first_seen = clock =>
            \E k \in 1..Len(alerts) : alerts[k].id = row.id

\* a completed cycle fetched one id stored earlier and one new id, stored
\* the new one and alerted it
C20_Witness ==
    /\ pc = "idle"
    /\ fetch_result = "entries"
    /\ Len(latest_entries) = 2
    /\ Len(alerts) = 1
    /\ \E old, new \in db :
        /\ old.first_seen < clock /\ new.first_seen = clock
        /\ {latest_entries[1].id, latest_entries[2].id} = {old.id, new.id}
        /\ alerts[1].id = new.id

====
